---------------------------- MODULE Spec2Model ----------------------------
(***************************************************************************)
(* A model of the var_quantity crate: quantity functions (Linear,          *)
(* FirstOrderTaylor, Polynomial, Exponential), the influence matcher       *)
(* filter_unary_function, FunctionWrapper<T> and VarQuantity<T>.           *)
(*                                                                         *)
(* Scalars (f64) are modelled by integers.  The value of an Exponential    *)
(* is a finite sum of a * e^k with integer a and k; since e is             *)
(* transcendental, two such sums are equal exactly when their coefficients *)
(* agree after collecting equal powers, so the value is kept in that       *)
(* collected form (a set of <<k, a>> with a # 0, one entry per k).         *)
(***************************************************************************)
EXTENDS Integers, Sequences, FiniteSets, TLC

VARIABLES
    func,       \* the quantity function object the client owns (Box<dyn QuantityFunction>)
    wrapper,    \* the FunctionWrapper<T> the client owns
    vq,         \* the VarQuantity<T> the client owns
    op,         \* the operation the client invoked last, with its arguments
    ret         \* what that operation returned (or that it panicked)

vars == <<func, wrapper, vq, op, ret>>

---------------------------------------------------------------------------
(* Bounds of the model *)

\* longest list of influencing factors handed to a call
MaxInputs == 2
\* longest coefficient list handed to Polynomial::new
MaxCoeffs == 3
\* longest term list handed to Exponential::new
MaxTerms == 3

---------------------------------------------------------------------------
(* dyn_quantity::Unit: the exponents of the seven SI base units, in the    *)
(* order second, meter, kelvin, kilogram, ampere, mol, candela.            *)

UnitDefault == <<0, 0, 0, 0, 0, 0, 0>>
Ampere == <<0, 0, 0, 0, 1, 0, 0>>
PerAmpere == <<0, 0, 0, 0, -1, 0, 0>>
Watt == <<-3, 2, 0, 1, 0, 0, 0>>
Volt == <<-3, 2, 0, 1, -1, 0, 0>>

UnitMul(a, b) == [i \in DOMAIN a |-> a[i] + b[i]]
UnitDiv(a, b) == [i \in DOMAIN a |-> a[i] - b[i]]
UnitPowi(u, n) == [i \in DOMAIN u |-> u[i] * n]

\* DynQuantity<f64>: a scalar paired with a unit
DynQuantityNew(value, unit) == [value |-> value, unit |-> unit]

\* DynQuantity<f64> * f64 scales the scalar and keeps the unit
DynQuantityScale(q, factor) == [value |-> q.value * factor, unit |-> q.unit]

\* the units and scalars the model draws arguments from
Units == {UnitDefault, Ampere, PerAmpere}
Scalars == {-1, 0, 2}
Quantities == {DynQuantityNew(v, u) : v \in Scalars, u \in Units}

SeqsUpTo(S, n) == UNION {[1..k -> S] : k \in 0..n}
\* the influencing factors the model hands to calls
InputScalars == {0, 2}
InputQuantities == {DynQuantityNew(v, u) : v \in InputScalars, u \in Units}
InputLists == SeqsUpTo(InputQuantities, MaxInputs)

\* Result<_, _> and Option<_>
Ok(v) == [ok |-> TRUE, val |-> v]
Err(e) == [ok |-> FALSE, err |-> e]
UnitsNotEqual(first, second) == [error |-> "UnitsNotEqual", first |-> first, second |-> second]
Some(v) == [some |-> TRUE, val |-> v]
None == [some |-> FALSE]

---------------------------------------------------------------------------
(* filter_unary_function: the continuations it invokes, in order.  The     *)
(* value it returns is the value of the last continuation invoked.         *)

WithMatched(q) == [cont |-> "with_matched", arg |-> q]
NoMatch == [cont |-> "no_match"]

\* mutant: only the first element of the list is examined
RECURSIVE filter_loop_first_only(_, _, _)
filter_loop_first_only(influencing_factors, match_for, i) ==
    IF i > Len(influencing_factors)
    THEN <<NoMatch>>
    ELSE IF influencing_factors[i].unit = match_for
         THEN <<WithMatched(influencing_factors[i])>>
         ELSE <<NoMatch>>

RECURSIVE filter_loop(_, _, _)
filter_loop(influencing_factors, match_for, i) ==
    IF i > Len(influencing_factors)
    THEN <<NoMatch>>
    ELSE IF influencing_factors[i].unit = match_for
         THEN <<WithMatched(influencing_factors[i])>>
         ELSE filter_loop(influencing_factors, match_for, i + 1)

\* mutant: the scan keeps the last matching element instead of the first
RECURSIVE filter_loop_last(_, _, _)
filter_loop_last(influencing_factors, match_for, i) ==
    IF i < 1
    THEN <<NoMatch>>
    ELSE IF influencing_factors[i].unit = match_for
         THEN <<WithMatched(influencing_factors[i])>>
         ELSE filter_loop_last(influencing_factors, match_for, i - 1)

filter_unary_function_last_match(influencing_factors, match_for) ==
    filter_loop_last(influencing_factors, match_for, Len(influencing_factors))

filter_unary_function(influencing_factors, match_for) ==
    filter_loop(influencing_factors, match_for, 1)

Last(s) == s[Len(s)]

---------------------------------------------------------------------------
(* unary::Linear *)

Linear_new(slope, base_value) ==
    [kind |-> "Linear", slope |-> slope, base_value |-> base_value]

\* mutant: the quotient taken the wrong way round
Linear_influencing_factor_unit_inverted(self) ==
    UnitDiv(self.slope.unit, self.base_value.unit)

Linear_influencing_factor_unit(self) == UnitDiv(self.base_value.unit, self.slope.unit)

Linear_output_unit(self) == self.base_value.unit

\* mutant: the value for a matching input carries the unit of the slope
Linear_call_slope_unit(self, influencing_factors) ==
    LET m == Last(filter_unary_function(influencing_factors,
                                        Linear_influencing_factor_unit(self)))
    IN  IF m.cont = "with_matched"
        THEN DynQuantityNew(self.base_value.value + self.slope.value * m.arg.value,
                            self.slope.unit)
        ELSE self.base_value

\* mutant: the base value is added before the multiplication by the slope
Linear_call_base_first(self, influencing_factors) ==
    LET m == Last(filter_unary_function(influencing_factors,
                                        Linear_influencing_factor_unit(self)))
    IN  IF m.cont = "with_matched"
        THEN DynQuantityNew((self.base_value.value + m.arg.value) * self.slope.value,
                            self.base_value.unit)
        ELSE self.base_value

Linear_call(self, influencing_factors) ==
    LET m == Last(filter_unary_function(influencing_factors,
                                        Linear_influencing_factor_unit(self)))
    IN  IF m.cont = "with_matched"
        THEN DynQuantityNew(self.base_value.value + self.slope.value * m.arg.value,
                            self.base_value.unit)
        ELSE self.base_value

---------------------------------------------------------------------------
(* unary::FirstOrderTaylor *)

\* mutant: the check the doc comment describes, base_value.unit against
\* slope.unit * expansion_point.unit
FirstOrderTaylor_new_base_checked(base_value, slope, expansion_point) ==
    LET expected == base_value.unit
        found == UnitMul(slope.unit, expansion_point.unit)
    IN  IF expected = found
        THEN Ok([kind |-> "FirstOrderTaylor", base_value |-> base_value,
                 slope |-> slope, expansion_point |-> expansion_point])
        ELSE Err(UnitsNotEqual(expected, found))

FirstOrderTaylor_new(base_value, slope, expansion_point) ==
    LET expected == UnitDefault
        found == UnitMul(expansion_point.unit, slope.unit)
    IN  IF expected = found
        THEN Ok([kind |-> "FirstOrderTaylor", base_value |-> base_value,
                 slope |-> slope, expansion_point |-> expansion_point])
        ELSE Err(UnitsNotEqual(expected, found))

FirstOrderTaylor_influencing_factor_unit(self) == self.expansion_point.unit

FirstOrderTaylor_output_unit(self) == self.base_value.unit

\* mutant: without a matching input the series is evaluated at x = 0
FirstOrderTaylor_call_at_zero(self, influencing_factors) ==
    LET m == Last(filter_unary_function(influencing_factors, self.expansion_point.unit))
        x == IF m.cont = "with_matched" THEN m.arg.value ELSE 0
    IN  DynQuantityScale(self.base_value,
            1 + self.slope.value * (x - self.expansion_point.value))

\* mutant: the slope term is added to the base value, not scaled by it
FirstOrderTaylor_call_additive(self, influencing_factors) ==
    LET m == Last(filter_unary_function(influencing_factors, self.expansion_point.unit))
    IN  IF m.cont = "with_matched"
        THEN DynQuantityNew(self.base_value.value
                                + self.slope.value * (m.arg.value - self.expansion_point.value),
                            self.base_value.unit)
        ELSE self.base_value

FirstOrderTaylor_call(self, influencing_factors) ==
    LET m == Last(filter_unary_function(influencing_factors, self.expansion_point.unit))
    IN  IF m.cont = "with_matched"
        THEN DynQuantityScale(self.base_value,
                 1 + self.slope.value * (m.arg.value - self.expansion_point.value))
        ELSE self.base_value

---------------------------------------------------------------------------
(* unary::Polynomial *)

\* mutant: the power of the influencing-factor unit is forgotten
RECURSIVE Polynomial_check_no_power(_, _, _)
Polynomial_check_no_power(coefficients, influencing_factor_unit, exponent) ==
    LET l == Len(coefficients)
        base_unit == coefficients[l].unit
    IN  IF exponent > l - 1
        THEN None
        ELSE LET c == coefficients[l - exponent]
                 res_unit == UnitMul(c.unit, influencing_factor_unit)
             IN  IF base_unit # res_unit
                 THEN Some(UnitsNotEqual(base_unit, res_unit))
                 ELSE Polynomial_check_no_power(coefficients, influencing_factor_unit,
                                                exponent + 1)

\* the unit check of Polynomial::new, from the last coefficient backwards:
\* the first mismatch found, or None
RECURSIVE Polynomial_check(_, _, _)
Polynomial_check(coefficients, influencing_factor_unit, exponent) ==
    LET l == Len(coefficients)
        base_unit == coefficients[l].unit
    IN  IF exponent > l - 1
        THEN None
        ELSE LET c == coefficients[l - exponent]
                 res_unit == UnitMul(c.unit, UnitPowi(influencing_factor_unit, exponent))
             IN  IF base_unit # res_unit
                 THEN Some(UnitsNotEqual(base_unit, res_unit))
                 ELSE Polynomial_check(coefficients, influencing_factor_unit, exponent + 1)

Polynomial_new(coefficients) ==
    LET l == Len(coefficients)
        influencing_factor_unit ==
            IF l > 1
            THEN UnitDiv(coefficients[l].unit, coefficients[l - 1].unit)
            ELSE UnitDefault
        mismatch ==
            IF l > 0 THEN Polynomial_check(coefficients, influencing_factor_unit, 1)
                     ELSE None
        default_value ==
            IF l > 0 THEN coefficients[l] ELSE DynQuantityNew(0, UnitDefault)
        coefficients_val == [i \in 1..l |-> coefficients[i].value]
    IN  IF mismatch.some
        THEN Err(mismatch.val)
        ELSE Ok([kind |-> "Polynomial", coefficients |-> coefficients,
                 influencing_factor_unit |-> influencing_factor_unit,
                 coefficients_val |-> coefficients_val,
                 default_value |-> default_value])

Polynomial_influencing_factor_unit(self) == self.influencing_factor_unit

Polynomial_output_unit(self) == self.default_value.unit

\* mutant: the fold multiplies the coefficient, not the accumulator, by x
RECURSIVE horner_fold_coefficient_scaled(_, _, _, _)
horner_fold_coefficient_scaled(x, coefficients, i, acc) ==
    IF i > Len(coefficients)
    THEN acc
    ELSE horner_fold_coefficient_scaled(x, coefficients, i + 1,
                                        acc + x * coefficients[i])

\* horner::eval_polynomial: None for no coefficients, else the Horner fold
RECURSIVE horner_fold(_, _, _, _)
horner_fold(x, coefficients, i, acc) ==
    IF i > Len(coefficients)
    THEN acc
    ELSE horner_fold(x, coefficients, i + 1, acc * x + coefficients[i])

eval_polynomial(x, coefficients) ==
    IF Len(coefficients) = 0
    THEN None
    ELSE Some(horner_fold(x, coefficients, 2, coefficients[1]))

\* Polynomial::call: Ok(quantity), or a panic when unwrap() meets None
Panic == [ok |-> FALSE, panic |-> TRUE]
Returned(v) == [ok |-> TRUE, val |-> v]
IsPanic(r) == "panic" \in DOMAIN r

Polynomial_call(self, influencing_factors) ==
    LET m == Last(filter_unary_function(influencing_factors, self.influencing_factor_unit))
    IN  IF m.cont = "with_matched"
        THEN LET val == eval_polynomial(m.arg.value, self.coefficients_val)
             IN  IF val.some
                 THEN Returned(DynQuantityNew(val.val, self.default_value.unit))
                 ELSE Panic
        ELSE Returned(self.default_value)

---------------------------------------------------------------------------
(* unary::Exponential *)

ExpTerm(amplitude, exponent) == [amplitude |-> amplitude, exponent |-> exponent]

\* mutant: only the amplitude units are compared
RECURSIVE Exponential_find_map_amplitudes_only(_, _)
Exponential_find_map_amplitudes_only(terms, i) ==
    IF i + 1 > Len(terms)
    THEN None
    ELSE IF terms[i].amplitude.unit # terms[i + 1].amplitude.unit
         THEN Some(<<terms[i].amplitude.unit, terms[i + 1].amplitude.unit>>)
         ELSE Exponential_find_map_amplitudes_only(terms, i + 1)

\* mutant: within a pair the exponents are compared before the amplitudes
RECURSIVE Exponential_find_map_exponents_first(_, _)
Exponential_find_map_exponents_first(terms, i) ==
    IF i + 1 > Len(terms)
    THEN None
    ELSE IF terms[i].exponent.unit # terms[i + 1].exponent.unit
         THEN Some(<<terms[i].exponent.unit, terms[i + 1].exponent.unit>>)
         ELSE IF terms[i].amplitude.unit # terms[i + 1].amplitude.unit
              THEN Some(<<terms[i].amplitude.unit, terms[i + 1].amplitude.unit>>)
              ELSE Exponential_find_map_exponents_first(terms, i + 1)

\* the first adjacent pair of terms whose units differ (amplitudes are
\* compared before exponents), or None: terms.windows(2).find_map(..)
RECURSIVE Exponential_find_map(_, _)
Exponential_find_map(terms, i) ==
    IF i + 1 > Len(terms)
    THEN None
    ELSE LET term1 == terms[i]
             term2 == terms[i + 1]
         IN  IF term1.amplitude.unit # term2.amplitude.unit
             THEN Some(<<term1.amplitude.unit, term2.amplitude.unit>>)
             ELSE IF term1.exponent.unit # term2.exponent.unit
                  THEN Some(<<term1.exponent.unit, term2.exponent.unit>>)
                  ELSE Exponential_find_map(terms, i + 1)

\* mutant: the units are taken from the first term, which must exist
Exponential_new_first_required(terms) ==
    LET found == Exponential_find_map(terms, 1)
    IN  IF Len(terms) = 0
        THEN Err(UnitsNotEqual(UnitDefault, UnitDefault))
        ELSE IF found.some
             THEN Err(UnitsNotEqual(found.val[1], found.val[2]))
             ELSE Ok([kind |-> "Exponential", terms |-> terms,
                      output_unit |-> terms[1].amplitude.unit,
                      influencing_factor_unit |-> UnitPowi(terms[1].exponent.unit, -1)])

Exponential_new(terms) ==
    LET influencing_factor_unit ==
            IF Len(terms) > 0 THEN UnitPowi(terms[1].exponent.unit, -1) ELSE UnitDefault
        found == Exponential_find_map(terms, 1)
        output_unit ==
            IF Len(terms) > 0 THEN terms[1].amplitude.unit ELSE UnitDefault
    IN  IF found.some
        THEN Err(UnitsNotEqual(found.val[1], found.val[2]))
        ELSE Ok([kind |-> "Exponential", terms |-> terms,
                 output_unit |-> output_unit,
                 influencing_factor_unit |-> influencing_factor_unit])

Exponential_influencing_factor_unit(self) == self.influencing_factor_unit

Exponential_output_unit(self) == self.output_unit

\* a sum of a * e^k in collected form: the integer n is n * e^0
ExpOfInt(n) == IF n = 0 THEN {} ELSE {<<0, n>>}

\* sum + a * e^k
ExpAdd(sum, k, a) ==
    LET old == {p \in sum : p[1] = k}
        c == IF old = {} THEN a ELSE (CHOOSE p \in old : TRUE)[2] + a
    IN  (sum \ old) \cup (IF c = 0 THEN {} ELSE {<<k, c>>})

\* terms.iter().map(|t| t.amplitude.value * (t.exponent.value * x).exp()).sum()
RECURSIVE Exponential_sum_matched(_, _, _, _)
Exponential_sum_matched(terms, x, i, sum) ==
    IF i > Len(terms)
    THEN sum
    ELSE Exponential_sum_matched(terms, x, i + 1,
             ExpAdd(sum, terms[i].exponent.value * x, terms[i].amplitude.value))

\* terms.iter().map(|t| t.amplitude.value).sum()
RECURSIVE Exponential_sum_amplitudes(_, _, _)
Exponential_sum_amplitudes(terms, i, sum) ==
    IF i > Len(terms)
    THEN sum
    ELSE Exponential_sum_amplitudes(terms, i + 1, sum + terms[i].amplitude.value)

\* mutant: without a matching input the sum is left at zero
Exponential_call_zero_default(self, influencing_factors) ==
    LET m == Last(filter_unary_function(influencing_factors, self.influencing_factor_unit))
    IN  IF m.cont = "with_matched"
        THEN DynQuantityNew(Exponential_sum_matched(self.terms, m.arg.value, 1, {}),
                            self.output_unit)
        ELSE DynQuantityNew(ExpOfInt(0), self.output_unit)

Exponential_call(self, influencing_factors) ==
    LET m == Last(filter_unary_function(influencing_factors, self.influencing_factor_unit))
    IN  IF m.cont = "with_matched"
        THEN DynQuantityNew(Exponential_sum_matched(self.terms, m.arg.value, 1, {}),
                            self.output_unit)
        ELSE DynQuantityNew(ExpOfInt(Exponential_sum_amplitudes(self.terms, 1, 0)),
                            self.output_unit)

---------------------------------------------------------------------------
(* QuantityFunction::call of the built-in functions, by dynamic dispatch,  *)
(* and their two unit accessors                                            *)

Builtin_call(self, influencing_factors) ==
    CASE self.kind = "Linear" -> Returned(Linear_call(self, influencing_factors))
      [] self.kind = "FirstOrderTaylor" ->
             Returned(FirstOrderTaylor_call(self, influencing_factors))
      [] self.kind = "Polynomial" -> Polynomial_call(self, influencing_factors)
      [] self.kind = "Exponential" -> Returned(Exponential_call(self, influencing_factors))

influencing_factor_unit(self) ==
    CASE self.kind = "Linear" -> Linear_influencing_factor_unit(self)
      [] self.kind = "FirstOrderTaylor" -> FirstOrderTaylor_influencing_factor_unit(self)
      [] self.kind = "Polynomial" -> Polynomial_influencing_factor_unit(self)
      [] self.kind = "Exponential" -> Exponential_influencing_factor_unit(self)

output_unit(self) ==
    CASE self.kind = "Linear" -> Linear_output_unit(self)
      [] self.kind = "FirstOrderTaylor" -> FirstOrderTaylor_output_unit(self)
      [] self.kind = "Polynomial" -> Polynomial_output_unit(self)
      [] self.kind = "Exponential" -> Exponential_output_unit(self)

---------------------------------------------------------------------------
(* A user implementation of QuantityFunction.  Its output unit may depend  *)
(* on the input list, which the type system cannot exclude: it returns     *)
(* empty_unit for the empty list and other_unit for any other list; the    *)
(* scalar is base plus the scalar of the first influencing factor.         *)

Custom_new(empty_unit, other_unit, base) ==
    [kind |-> "Custom", empty_unit |-> empty_unit, other_unit |-> other_unit,
     base |-> base]

Custom_call(self, influencing_factors) ==
    IF Len(influencing_factors) = 0
    THEN DynQuantityNew(self.base, self.empty_unit)
    ELSE DynQuantityNew(self.base + influencing_factors[1].value, self.other_unit)

\* QuantityFunction::call on a trait object
QuantityFunction_call(self, influencing_factors) ==
    IF self.kind = "Custom"
    THEN Returned(Custom_call(self, influencing_factors))
    ELSE Builtin_call(self, influencing_factors)

---------------------------------------------------------------------------
(* The statically typed quantities T: f64 and two uom quantities           *)

Types == {"f64", "ElectricCurrent", "Power"}

unit_from_type(T) ==
    CASE T = "f64" -> UnitDefault
      [] T = "ElectricCurrent" -> Ampere
      [] T = "Power" -> Watt

\* DynQuantity<f64> -> DynQuantity<Complex<f64>>
IntoComplex(q) == [re |-> q.value, im |-> 0, unit |-> q.unit]

\* T::try_from(DynQuantity<Complex<f64>>): fails unless the unit is T's
TryFrom(T, dq) ==
    IF dq.unit = unit_from_type(T) /\ dq.im = 0
    THEN Ok([type |-> T, value |-> dq.re])
    ELSE Err([error |-> "ConversionError"])

---------------------------------------------------------------------------
(* FunctionWrapper<T> *)

\* mutant: the two units of the error change places
FunctionWrapper_new_swapped(T, function) ==
    LET r == QuantityFunction_call(function, <<>>)
    IN  IF ~r.ok THEN Panic
        ELSE LET actual == r.val.unit
                 expected == unit_from_type(T)
             IN  IF actual # expected
                 THEN Err(UnitsNotEqual(actual, expected))
                 ELSE Ok([exists |-> TRUE, function |-> function, T |-> T])

\* mutant: the function is not called with the empty list
FunctionWrapper_new_untested(T, function) ==
    Ok([exists |-> TRUE, function |-> function, T |-> T])

FunctionWrapper_new(T, function) ==
    LET r == QuantityFunction_call(function, <<>>)
    IN  IF ~r.ok THEN Panic
        ELSE LET actual == r.val.unit
                 expected == unit_from_type(T)
             IN  IF actual # expected
                 THEN Err(UnitsNotEqual(expected, actual))
                 ELSE Ok([exists |-> TRUE, function |-> function, T |-> T])

\* mutant: the conversion is not checked
FunctionWrapper_call_unchecked(self, influencing_factors) ==
    LET r == QuantityFunction_call(self.function, influencing_factors)
    IN  IF ~r.ok THEN Panic
        ELSE Returned([type |-> self.T, value |-> r.val.value])

FunctionWrapper_call(self, influencing_factors) ==
    LET r == QuantityFunction_call(self.function, influencing_factors)
    IN  IF ~r.ok THEN Panic
        ELSE LET converted == TryFrom(self.T, IntoComplex(r.val))
             IN  IF converted.ok THEN Returned(converted.val) ELSE Panic

\* dyn_clone::clone_box: the derived Clone of the concrete type
clone_box(function) == function

FunctionWrapper_clone(self) ==
    [exists |-> TRUE, function |-> clone_box(self.function), T |-> self.T]

---------------------------------------------------------------------------
(* VarQuantity<T> *)

Constant(value) == [variant |-> "Constant", value |-> value]
Function(w) == [variant |-> "Function", wrapper |-> w]

\* mutant: the influencing factors are not handed on
VarQuantity_get_no_inputs(self, influencing_factors) ==
    IF self.variant = "Constant"
    THEN Returned(self.value)
    ELSE FunctionWrapper_call(self.wrapper, <<>>)

VarQuantity_get(self, influencing_factors) ==
    IF self.variant = "Constant"
    THEN Returned(self.value)
    ELSE FunctionWrapper_call(self.wrapper, influencing_factors)

VarQuantity_clone(self) ==
    IF self.variant = "Constant"
    THEN Constant(self.value)
    ELSE Function(FunctionWrapper_clone(self.wrapper))

---------------------------------------------------------------------------
(* serde.  A payload is a serde_value::Value: a bare number, a string or   *)
(* a map; typetag writes a trait object as a map from its tag to its       *)
(* fields.  A string is either a quantity literal such as "1 mT" (kept as  *)
(* the scalar and unit it denotes) or not parsable.                        *)

Number(n) == [ty |-> "Number", number |-> n]
String(literal) == [ty |-> "String", literal |-> literal]
Map(tag, content) == [ty |-> "Map", tag |-> tag, content |-> content]

Literal(value, unit) == [wellformed |-> TRUE, value |-> value, unit |-> unit]
Garbage == [wellformed |-> FALSE]

DeError(cause) == Err([error |-> "DeserializeError", cause |-> cause])

\* serde::de::Error::custom on the error of a result (a panic unwinds through it)
map_err_custom(result) ==
    IF result.ok \/ IsPanic(result) THEN result ELSE DeError(result.err)

\* Serialize of the concrete function types, as typetag tags them
QuantityFunction_serialize(self) ==
    CASE self.kind = "Custom" ->
             Map("Custom", [empty_unit |-> self.empty_unit,
                            other_unit |-> self.other_unit, base |-> self.base])
      [] self.kind = "Linear" ->
             Map("Linear", [slope |-> self.slope, base_value |-> self.base_value])
      [] self.kind = "FirstOrderTaylor" ->
             Map("FirstOrderTaylor",
                 [base_value |-> self.base_value, slope |-> self.slope,
                  expansion_point |-> self.expansion_point])
      [] self.kind = "Polynomial" ->
             Map("Polynomial", [coefficients |-> self.coefficients])
      [] self.kind = "Exponential" ->
             Map("Exponential", [terms |-> self.terms])

\* mutant: the Deserialize of FirstOrderTaylor hands slope and expansion_point
\* to the constructor in each other's place
Box_deserialize_swapped(value) ==
    IF value.ty # "Map"
    THEN DeError([error |-> "NotATaggedObject"])
    ELSE CASE value.tag = "Custom" ->
                  Ok(Custom_new(value.content.empty_unit, value.content.other_unit,
                                value.content.base))
           [] value.tag = "Linear" ->
                  Ok([kind |-> "Linear", slope |-> value.content.slope,
                      base_value |-> value.content.base_value])
           [] value.tag = "FirstOrderTaylor" ->
                  map_err_custom(FirstOrderTaylor_new(value.content.base_value,
                                                      value.content.expansion_point,
                                                      value.content.slope))
           [] value.tag = "Polynomial" ->
                  map_err_custom(Polynomial_new(value.content.coefficients))
           [] value.tag = "Exponential" ->
                  map_err_custom(Exponential_new(value.content.terms))
           [] OTHER -> DeError([error |-> "UnknownTag"])

\* mutant: Polynomial is read as a derived Deserialize would read it, the
\* fields that are not serialized left at their defaults
Box_deserialize_unchecked(value) ==
    IF value.ty # "Map"
    THEN DeError([error |-> "NotATaggedObject"])
    ELSE CASE value.tag = "Custom" ->
                  Ok(Custom_new(value.content.empty_unit, value.content.other_unit,
                                value.content.base))
           [] value.tag = "Linear" ->
                  Ok([kind |-> "Linear", slope |-> value.content.slope,
                      base_value |-> value.content.base_value])
           [] value.tag = "FirstOrderTaylor" ->
                  map_err_custom(FirstOrderTaylor_new(value.content.base_value,
                                                      value.content.slope,
                                                      value.content.expansion_point))
           [] value.tag = "Polynomial" ->
                  Ok([kind |-> "Polynomial", coefficients |-> value.content.coefficients,
                      influencing_factor_unit |-> UnitDefault,
                      coefficients_val |-> <<>>,
                      default_value |-> DynQuantityNew(0, UnitDefault)])
           [] value.tag = "Exponential" ->
                  map_err_custom(Exponential_new(value.content.terms))
           [] OTHER -> DeError([error |-> "UnknownTag"])

\* Deserialize of Box<dyn QuantityFunction>: typetag picks the concrete type
\* by the tag and runs its Deserialize
Box_deserialize(value) ==
    IF value.ty # "Map"
    THEN DeError([error |-> "NotATaggedObject"])
    ELSE CASE value.tag = "Custom" ->
                  Ok(Custom_new(value.content.empty_unit, value.content.other_unit,
                                value.content.base))
           [] value.tag = "Linear" ->
                  Ok([kind |-> "Linear", slope |-> value.content.slope,
                      base_value |-> value.content.base_value])
           [] value.tag = "FirstOrderTaylor" ->
                  map_err_custom(FirstOrderTaylor_new(value.content.base_value,
                                                      value.content.slope,
                                                      value.content.expansion_point))
           [] value.tag = "Polynomial" ->
                  map_err_custom(Polynomial_new(value.content.coefficients))
           [] value.tag = "Exponential" ->
                  map_err_custom(Exponential_new(value.content.terms))
           [] OTHER -> DeError([error |-> "UnknownTag"])

\* mutant: the wrapper is built from its field, as a derived Deserialize would
FunctionWrapper_deserialize_derived(T, value) ==
    LET v == Box_deserialize(value)
    IN  IF ~v.ok THEN v
        ELSE Ok([exists |-> TRUE, function |-> v.val, T |-> T])

FunctionWrapper_deserialize(T, value) ==
    LET v == Box_deserialize(value)
    IN  IF ~v.ok THEN v
        ELSE map_err_custom(FunctionWrapper_new(T, v.val))

\* NumberOrString::<T>::deserialize: T itself reads a bare number
NumberOrString_deserialize(T, content) ==
    CASE content.ty = "Number" ->
             Ok([variant |-> "Number", q |-> [type |-> T, value |-> content.number]])
      [] content.ty = "String" ->
             Ok([variant |-> "String", s |-> content.literal])
      [] OTHER -> DeError([error |-> "NeitherNumberNorString"])

\* DynQuantity::<Complex<f64>>::from_str
from_str(s) ==
    IF s.wellformed
    THEN Ok([re |-> s.value, im |-> 0, unit |-> s.unit])
    ELSE Err([error |-> "ParseError"])

\* mutant: a string is not tried as a constant (NumberOrString without its
\* String variant)
VarQuantity_deserialize_numbers_only(T, content) ==
    IF content.ty = "Number"
    THEN Ok(Constant([type |-> T, value |-> content.number]))
    ELSE LET w == FunctionWrapper_deserialize(T, content)
         IN  IF ~w.ok THEN w ELSE Ok(Function(w.val))

VarQuantity_deserialize(T, content) ==
    LET number_or_string == NumberOrString_deserialize(T, content)
    IN  IF number_or_string.ok
        THEN IF number_or_string.val.variant = "Number"
             THEN Ok(Constant(number_or_string.val.q))
             ELSE LET dq == map_err_custom(from_str(number_or_string.val.s))
                  IN  IF ~dq.ok THEN dq
                      ELSE LET q == map_err_custom(TryFrom(T, dq.val))
                           IN  IF ~q.ok THEN q ELSE Ok(Constant(q.val))
        ELSE LET w == FunctionWrapper_deserialize(T, content)
             IN  IF ~w.ok THEN w ELSE Ok(Function(w.val))

\* Serialize of T (f64, or a uom quantity): a bare number
T_serialize(q) == Number(q.value)

\* Serialize of FunctionWrapper<T>: that of the boxed function
FunctionWrapper_serialize(self) == QuantityFunction_serialize(self.function)

\* the derived Serialize of the enum VarQuantity<T>: no serde attribute is
\* given, so the variant is written as a map from its name to its content
VarQuantity_serialize(self) ==
    IF self.variant = "Constant"
    THEN Map("Constant", T_serialize(self.value))
    ELSE Map("Function", FunctionWrapper_serialize(self.wrapper))

\* the type parameter of a VarQuantity<T>
TypeOf(self) ==
    IF self.variant = "Constant" THEN self.value.type ELSE self.wrapper.T

---------------------------------------------------------------------------
(* The client: it owns at most one object at a time (a function object,   *)
(* which FunctionWrapper::new consumes, a wrapper, which                   *)
(* VarQuantity::Function consumes, or a VarQuantity), invokes one          *)
(* operation at a time (evaluation is synchronous) and takes the result    *)
(* before it invokes the next one.  A panic ends the client.               *)

Idle == [name |-> "idle"]
NoReturn == [idle |-> TRUE]
NoFunction == [kind |-> "None"]
NoWrapper == [exists |-> FALSE]
NoVarQuantity == [variant |-> "None"]

IsIdle == op.name = "idle"
OwnsNothing == func = NoFunction /\ wrapper = NoWrapper /\ vq = NoVarQuantity

\* the terms the model hands to Exponential::new
TermAmplitudes == {-1, 2}
TermExponents == {0, 1}
TermUnits == {UnitDefault, Ampere}
ExpTerms ==
    {ExpTerm(DynQuantityNew(a, ua), DynQuantityNew(k, uk)) :
        a \in TermAmplitudes, ua \in TermUnits, k \in TermExponents, uk \in TermUnits}

\* the client keeps what a constructor returned
Keep(result) == IF result.ok THEN result.val ELSE NoFunction
KeepWrapper(result) == IF result.ok THEN result.val ELSE NoWrapper
KeepVarQuantity(result) == IF result.ok THEN result.val ELSE NoVarQuantity

\* the user functions and the payloads of the model
CustomUnits == {UnitDefault, Ampere, Watt}
CustomBases == {1}
CustomFunctions ==
    {Custom_new(e, o, b) : e \in CustomUnits, o \in CustomUnits, b \in CustomBases}
PayloadScalars == {0, 2}
PayloadQuantities == {DynQuantityNew(v, u) : v \in PayloadScalars, u \in Units}
FunctionPayloads ==
    {QuantityFunction_serialize(f) : f \in CustomFunctions}
        \cup {QuantityFunction_serialize(Linear_new(slope, base_value)) :
                 slope \in PayloadQuantities, base_value \in PayloadQuantities}
        \cup {Map("Unregistered", [base |-> 1])}
ConstantPayloads ==
    {Number(n) : n \in PayloadScalars}
        \cup {String(Literal(v, u)) : v \in PayloadScalars, u \in CustomUnits}
        \cup {String(Garbage)}
Payloads == FunctionPayloads \cup ConstantPayloads

NewLinear ==
    /\ IsIdle /\ OwnsNothing
    /\ \E slope \in Quantities, base_value \in Quantities :
        /\ op' = [name |-> "Linear::new", slope |-> slope, base_value |-> base_value]
        /\ ret' = Ok(Linear_new(slope, base_value))
        /\ func' = Linear_new(slope, base_value)
    /\ UNCHANGED <<wrapper, vq>>

\* the arguments the model hands to FirstOrderTaylor::new: the quantities
\* above, and a power as base value and a voltage as slope
TaylorBaseValues == Quantities \cup {DynQuantityNew(2, Watt)}
TaylorSlopes == Quantities \cup {DynQuantityNew(2, Volt)}

NewFirstOrderTaylor ==
    /\ IsIdle /\ OwnsNothing
    /\ \E base_value \in TaylorBaseValues, slope \in TaylorSlopes,
          expansion_point \in Quantities :
        /\ op' = [name |-> "FirstOrderTaylor::new", base_value |-> base_value,
                  slope |-> slope, expansion_point |-> expansion_point]
        /\ ret' = FirstOrderTaylor_new(base_value, slope, expansion_point)
        /\ func' = Keep(FirstOrderTaylor_new(base_value, slope, expansion_point))
    /\ UNCHANGED <<wrapper, vq>>

\* the coefficient lists the model hands to Polynomial::new: every list of
\* up to MaxCoeffs quantities, and the lists one longer whose values are 2
LongCoefficientLists ==
    {[i \in 1..(MaxCoeffs + 1) |-> DynQuantityNew(2, u[i])] :
        u \in [1..(MaxCoeffs + 1) -> Units]}
CoefficientLists == SeqsUpTo(Quantities, MaxCoeffs) \cup LongCoefficientLists

NewPolynomial ==
    /\ IsIdle /\ OwnsNothing
    /\ \E coefficients \in CoefficientLists :
        /\ op' = [name |-> "Polynomial::new", coefficients |-> coefficients]
        /\ ret' = Polynomial_new(coefficients)
        /\ func' = Keep(Polynomial_new(coefficients))
    /\ UNCHANGED <<wrapper, vq>>

NewExponential ==
    /\ IsIdle /\ OwnsNothing
    /\ \E terms \in SeqsUpTo(ExpTerms, MaxTerms) :
        /\ op' = [name |-> "Exponential::new", terms |-> terms]
        /\ ret' = Exponential_new(terms)
        /\ func' = Keep(Exponential_new(terms))
    /\ UNCHANGED <<wrapper, vq>>

\* QuantityFunction::call on the built-in function the client owns
CallFunction ==
    /\ IsIdle /\ func # NoFunction
    /\ \E influencing_factors \in InputLists :
        /\ op' = [name |-> "call", influencing_factors |-> influencing_factors]
        /\ ret' = Builtin_call(func, influencing_factors)
    /\ UNCHANGED <<func, wrapper, vq>>

\* the function the client owns is serialized and read back
RoundTrip ==
    /\ IsIdle /\ func # NoFunction
    /\ op' = [name |-> "round_trip", payload |-> QuantityFunction_serialize(func)]
    /\ ret' = Box_deserialize(QuantityFunction_serialize(func))
    /\ UNCHANGED <<func, wrapper, vq>>

\* the payloads the model hands to the Deserialize of the built-in
\* functions: tagged objects with consistent and with inconsistent units, an
\* unregistered tag and a bare number
DeserializeTerms ==
    {ExpTerm(DynQuantityNew(2, ua), DynQuantityNew(1, uk)) :
        ua \in TermUnits, uk \in TermUnits}
BuiltinPayloads ==
    {Map("Polynomial", [coefficients |-> c]) : c \in SeqsUpTo(PayloadQuantities, MaxCoeffs)}
        \cup {Map("Exponential", [terms |-> t]) : t \in SeqsUpTo(DeserializeTerms, MaxTerms)}
        \cup {Map("FirstOrderTaylor",
                  [base_value |-> b, slope |-> s, expansion_point |-> e]) :
                  b \in PayloadQuantities, s \in PayloadQuantities, e \in PayloadQuantities}
        \cup {Map("Linear", [slope |-> s, base_value |-> b]) :
                  s \in PayloadQuantities, b \in PayloadQuantities}
        \cup {Map("Unregistered", [base |-> 1]), Number(2)}

\* a built-in function is read from a payload; the client keeps it
FunctionDeserialize ==
    /\ IsIdle /\ OwnsNothing
    /\ \E payload \in BuiltinPayloads :
        /\ op' = [name |-> "deserialize", payload |-> payload]
        /\ ret' = Box_deserialize(payload)
        /\ func' = Keep(Box_deserialize(payload))
    /\ UNCHANGED <<wrapper, vq>>

\* the function the client owns is cloned; the client keeps the clone and
\* drops the original
CloneFunction ==
    /\ IsIdle /\ func # NoFunction
    /\ op' = [name |-> "clone", original |-> func]
    /\ ret' = Returned(clone_box(func))
    /\ func' = clone_box(func)
    /\ UNCHANGED <<wrapper, vq>>

\* the client takes the result of the operation
TakeResult ==
    /\ ~IsIdle
    /\ ~IsPanic(ret)
    /\ op' = Idle
    /\ ret' = NoReturn
    /\ UNCHANGED <<func, wrapper, vq>>

\* the client drops the function object
DropFunction ==
    /\ IsIdle /\ func # NoFunction
    /\ func' = NoFunction
    /\ UNCHANGED <<wrapper, vq, op, ret>>

NewCustom ==
    /\ IsIdle /\ OwnsNothing
    /\ \E f \in CustomFunctions :
        /\ op' = [name |-> "Custom::new", function |-> f]
        /\ ret' = Ok(f)
        /\ func' = f
    /\ UNCHANGED <<wrapper, vq>>

\* FunctionWrapper::<T>::new(Box::new(func)): the function moves into the call
WrapperNew ==
    /\ IsIdle /\ func # NoFunction
    /\ \E T \in Types :
        /\ op' = [name |-> "FunctionWrapper::new", T |-> T, function |-> func]
        /\ ret' = FunctionWrapper_new(T, func)
        /\ wrapper' = KeepWrapper(FunctionWrapper_new(T, func))
    /\ func' = NoFunction
    /\ UNCHANGED vq

WrapperDeserialize ==
    /\ IsIdle /\ OwnsNothing
    /\ \E T \in Types, payload \in Payloads :
        /\ op' = [name |-> "FunctionWrapper::deserialize", T |-> T, payload |-> payload]
        /\ ret' = FunctionWrapper_deserialize(T, payload)
        /\ wrapper' = KeepWrapper(FunctionWrapper_deserialize(T, payload))
    /\ UNCHANGED <<func, vq>>

WrapperCall ==
    /\ IsIdle /\ wrapper # NoWrapper
    /\ \E influencing_factors \in InputLists :
        /\ op' = [name |-> "FunctionWrapper::call",
                  influencing_factors |-> influencing_factors]
        /\ ret' = FunctionWrapper_call(wrapper, influencing_factors)
    /\ UNCHANGED <<func, wrapper, vq>>

\* the clone is handed to the client, which drops it when it takes the result
WrapperClone ==
    /\ IsIdle /\ wrapper # NoWrapper
    /\ op' = [name |-> "FunctionWrapper::clone"]
    /\ ret' = Returned(FunctionWrapper_clone(wrapper))
    /\ UNCHANGED <<func, wrapper, vq>>

DropWrapper ==
    /\ IsIdle /\ wrapper # NoWrapper
    /\ wrapper' = NoWrapper
    /\ UNCHANGED <<func, vq, op, ret>>

\* VarQuantity::Constant(value)
MakeConstant ==
    /\ IsIdle /\ OwnsNothing
    /\ \E T \in Types, value \in Scalars :
        /\ op' = [name |-> "VarQuantity::Constant", T |-> T, value |-> value]
        /\ ret' = Ok(Constant([type |-> T, value |-> value]))
        /\ vq' = Constant([type |-> T, value |-> value])
    /\ UNCHANGED <<func, wrapper>>

\* VarQuantity::Function(wrapper): the wrapper moves into the variant
MakeFunction ==
    /\ IsIdle /\ wrapper # NoWrapper
    /\ op' = [name |-> "VarQuantity::Function", wrapper |-> wrapper]
    /\ ret' = Ok(Function(wrapper))
    /\ vq' = Function(wrapper)
    /\ wrapper' = NoWrapper
    /\ UNCHANGED func

VarQuantityDeserialize ==
    /\ IsIdle /\ OwnsNothing
    /\ \E T \in Types, payload \in Payloads :
        /\ op' = [name |-> "VarQuantity::deserialize", T |-> T, payload |-> payload]
        /\ ret' = VarQuantity_deserialize(T, payload)
        /\ vq' = KeepVarQuantity(VarQuantity_deserialize(T, payload))
    /\ UNCHANGED <<func, wrapper>>

VarQuantityGet ==
    /\ IsIdle /\ vq # NoVarQuantity
    /\ \E influencing_factors \in InputLists :
        /\ op' = [name |-> "VarQuantity::get", influencing_factors |-> influencing_factors]
        /\ ret' = VarQuantity_get(vq, influencing_factors)
    /\ UNCHANGED <<func, wrapper, vq>>

VarQuantityClone ==
    /\ IsIdle /\ vq # NoVarQuantity
    /\ op' = [name |-> "VarQuantity::clone"]
    /\ ret' = Returned(VarQuantity_clone(vq))
    /\ UNCHANGED <<func, wrapper, vq>>

DropVarQuantity ==
    /\ IsIdle /\ vq # NoVarQuantity
    /\ vq' = NoVarQuantity
    /\ UNCHANGED <<func, wrapper, op, ret>>

\* the VarQuantity the client owns is serialized and read back as the
\* same VarQuantity<T>
VarQuantityRoundTrip ==
    /\ IsIdle /\ vq # NoVarQuantity
    /\ op' = [name |-> "VarQuantity::round_trip", T |-> TypeOf(vq),
              payload |-> VarQuantity_serialize(vq)]
    /\ ret' = VarQuantity_deserialize(TypeOf(vq), VarQuantity_serialize(vq))
    /\ UNCHANGED <<func, wrapper, vq>>

\* filter_unary_function called directly; what it returns is kept as the
\* continuations it invoked
CallFilter ==
    /\ IsIdle
    /\ \E influencing_factors \in InputLists, match_for \in Units \cup {Watt} :
        /\ op' = [name |-> "filter_unary_function",
                  influencing_factors |-> influencing_factors, match_for |-> match_for]
        /\ ret' = Returned(filter_unary_function(influencing_factors, match_for))
    /\ UNCHANGED <<func, wrapper, vq>>

Init ==
    /\ func = NoFunction
    /\ wrapper = NoWrapper
    /\ vq = NoVarQuantity
    /\ op = Idle
    /\ ret = NoReturn

NextUnary ==
    \/ NewLinear
    \/ NewFirstOrderTaylor
    \/ NewPolynomial
    \/ NewExponential
    \/ CallFunction
    \/ RoundTrip
    \/ FunctionDeserialize
    \/ CloneFunction
    \/ TakeResult
    \/ DropFunction

SpecUnary == Init /\ [][NextUnary]_vars

\* FunctionWrapper and VarQuantity over user functions and Linear
Next ==
    \/ NewCustom
    \/ NewLinear
    \/ WrapperNew
    \/ WrapperDeserialize
    \/ WrapperCall
    \/ WrapperClone
    \/ DropWrapper
    \/ MakeConstant
    \/ MakeFunction
    \/ VarQuantityDeserialize
    \/ VarQuantityGet
    \/ VarQuantityClone
    \/ VarQuantityRoundTrip
    \/ DropVarQuantity
    \/ TakeResult
    \/ DropFunction

Spec == Init /\ [][Next]_vars

\* the influence matcher on its own
NextFilter ==
    \/ CallFilter
    \/ TakeResult

SpecFilter == Init /\ [][NextFilter]_vars

---------------------------------------------------------------------------
(* Properties of the built-in functions (checked under SpecUnary)          *)

\* no element of the list has the given unit
NoMatchIn(influencing_factors, unit) ==
    \A i \in DOMAIN influencing_factors : influencing_factors[i].unit # unit

IsNoMatchCall ==
    /\ op.name = "call"
    /\ NoMatchIn(op.influencing_factors, influencing_factor_unit(func))

RECURSIVE SumOfAmplitudes(_)
SumOfAmplitudes(terms) ==
    IF terms = <<>> THEN 0
    ELSE terms[1].amplitude.value + SumOfAmplitudes(Tail(terms))

\* C6: a call whose input list holds no value of the influencing-factor unit
\* returns base_value (Linear, FirstOrderTaylor), the last coefficient
\* (Polynomial) or the sum of all amplitudes with the output unit (Exponential).
C6_NoMatchFallback ==
    IsNoMatchCall =>
        CASE func.kind = "Linear" -> ret = Returned(func.base_value)
          [] func.kind = "FirstOrderTaylor" -> ret = Returned(func.base_value)
          [] func.kind = "Polynomial" ->
                 Len(func.coefficients) >= 1 =>
                     ret = Returned(func.coefficients[Len(func.coefficients)])
          [] func.kind = "Exponential" ->
                 ret = Returned(DynQuantityNew(ExpOfInt(SumOfAmplitudes(func.terms)),
                                               output_unit(func)))

C6_Witness ==
    /\ IsNoMatchCall
    /\ func.kind = "Exponential"
    /\ Len(func.terms) = 2
    /\ SumOfAmplitudes(func.terms) = 1
    /\ Len(op.influencing_factors) = 2

\* the value the function returns for one matching input with scalar x
ValueAt(x) == Builtin_call(func, <<DynQuantityNew(x, influencing_factor_unit(func))>>)

IsNew(name) == op.name = name /\ ret.ok

\* C8: the two unit accessors of a constructed function equal the documented
\* derivation from the constructor's arguments.
C8_UnitDerivation ==
    /\ IsNew("Linear::new") =>
           /\ influencing_factor_unit(func) = UnitDiv(op.base_value.unit, op.slope.unit)
           /\ output_unit(func) = op.base_value.unit
    /\ IsNew("FirstOrderTaylor::new") =>
           /\ influencing_factor_unit(func) = op.expansion_point.unit
           /\ output_unit(func) = op.base_value.unit
    /\ (IsNew("Polynomial::new") /\ Len(op.coefficients) >= 2) =>
           LET l == Len(op.coefficients)
           IN  /\ influencing_factor_unit(func) =
                      UnitDiv(op.coefficients[l].unit, op.coefficients[l - 1].unit)
               /\ output_unit(func) = op.coefficients[l].unit
    /\ IsNew("Exponential::new") =>
           \A i \in DOMAIN op.terms :
               /\ influencing_factor_unit(func) = UnitPowi(op.terms[i].exponent.unit, -1)
               /\ output_unit(func) = op.terms[i].amplitude.unit

C8_Witness ==
    /\ IsNew("Exponential::new")
    /\ Len(op.terms) = 3
    /\ influencing_factor_unit(func) = PerAmpere
    /\ output_unit(func) = Ampere

\* the unit check that the documentation of Polynomial states
PolynomialConsistent(coefficients) ==
    LET l == Len(coefficients)
    IN  \A k \in 1..(l - 1) :
            UnitMul(coefficients[l - k].unit,
                    UnitPowi(UnitDiv(coefficients[l].unit, coefficients[l - 1].unit), k))
                = coefficients[l].unit

\* C9: Polynomial::new succeeds if and only if every coefficient at distance
\* k >= 1 from the end has unit * (last.unit / second_to_last.unit)^k equal to
\* last.unit; otherwise it fails with a units-not-equal error.
C9_PolynomialNew ==
    op.name = "Polynomial::new" =>
        /\ ret.ok <=> PolynomialConsistent(op.coefficients)
        /\ ret.ok => (func = ret.val /\ func.coefficients = op.coefficients)
        /\ ~ret.ok => (ret.err.error = "UnitsNotEqual" /\ func = NoFunction)

C9_Witness ==
    /\ op.name = "Polynomial::new"
    /\ Len(op.coefficients) = 3
    /\ ~ret.ok

\* C10: Exponential::new succeeds if and only if every pair of terms agrees in
\* the amplitude unit and in the exponent unit; otherwise it fails with a
\* units-not-equal error.
C10_ExponentialNew ==
    op.name = "Exponential::new" =>
        /\ ret.ok <=>
               \A i \in DOMAIN op.terms, j \in DOMAIN op.terms :
                   /\ op.terms[i].amplitude.unit = op.terms[j].amplitude.unit
                   /\ op.terms[i].exponent.unit = op.terms[j].exponent.unit
        /\ ret.ok => (func = ret.val /\ func.terms = op.terms)
        /\ ~ret.ok => (ret.err.error = "UnitsNotEqual" /\ func = NoFunction)

C10_Witness ==
    /\ op.name = "Exponential::new"
    /\ Len(op.terms) = 3
    /\ op.terms[1].exponent.unit # op.terms[3].exponent.unit
    /\ op.terms[1].amplitude.unit = op.terms[2].amplitude.unit
    /\ op.terms[2].amplitude.unit = op.terms[3].amplitude.unit
    /\ ~ret.ok

---------------------------------------------------------------------------
(* Properties of FunctionWrapper and VarQuantity (checked under Spec)      *)

\* the unit the function returns for the empty input list
EmptyInputUnit(function) == QuantityFunction_call(function, <<>>).val.unit

\* C1: FunctionWrapper::<T>::new fails if and only if the unit of the
\* function's result for the empty input list differs from T's unit; on
\* success the wrapper owns the function, on failure the error carries the
\* expected (T's) and the actual unit and no wrapper exists.
C1_WrapperNew ==
    op.name = "FunctionWrapper::new" =>
        /\ ~ret.ok <=> EmptyInputUnit(op.function) # unit_from_type(op.T)
        /\ ret.ok =>
               /\ wrapper = ret.val
               /\ wrapper.function = op.function
               /\ wrapper.T = op.T
        /\ ~ret.ok =>
               /\ ret.err = UnitsNotEqual(unit_from_type(op.T), EmptyInputUnit(op.function))
               /\ wrapper = NoWrapper

C1_Witness ==
    /\ op.name = "FunctionWrapper::new"
    /\ op.T = "Power"
    /\ op.function.kind = "Custom"
    /\ op.function.empty_unit = Ampere
    /\ ~ret.ok
    /\ wrapper = NoWrapper

\* C2: FunctionWrapper::call never returns a value whose unit differs from
\* T's: when the inner function returns another unit than T's (the unit it
\* returned for the empty list at construction) the call panics; in every
\* other case it returns the inner function's result converted to T.
C2_WrapperCall ==
    op.name = "FunctionWrapper::call" =>
        LET inner == QuantityFunction_call(wrapper.function, op.influencing_factors).val
        IN  /\ inner.unit # EmptyInputUnit(wrapper.function) => IsPanic(ret)
            /\ inner.unit # unit_from_type(wrapper.T) => IsPanic(ret)
            /\ inner.unit = unit_from_type(wrapper.T) =>
                   ret = Returned([type |-> wrapper.T, value |-> inner.value])

C2_Witness ==
    /\ op.name = "FunctionWrapper::call"
    /\ wrapper.function.kind = "Custom"
    /\ wrapper.function.empty_unit = unit_from_type(wrapper.T)
    /\ wrapper.function.other_unit # wrapper.function.empty_unit
    /\ op.influencing_factors # <<>>
    /\ IsPanic(ret)

WrapperSound(w) == EmptyInputUnit(w.function) = unit_from_type(w.T)

\* C3: every FunctionWrapper<T> that exists, produced by FunctionWrapper::new,
\* by deserialization of a FunctionWrapper or of a VarQuantity, or by clone,
\* wraps a function whose result for the empty input list has T's unit.
C3_WrapperInvariant ==
    /\ wrapper # NoWrapper => WrapperSound(wrapper)
    /\ vq.variant = "Function" => WrapperSound(vq.wrapper)
    /\ (op.name \in {"FunctionWrapper::new", "FunctionWrapper::deserialize",
                     "FunctionWrapper::clone"} /\ ret.ok)
           => WrapperSound(ret.val)
    /\ (op.name \in {"VarQuantity::deserialize", "VarQuantity::clone",
                     "VarQuantity::Function"} /\ ret.ok /\ ret.val.variant = "Function")
           => WrapperSound(ret.val.wrapper)

C3_Witness ==
    /\ op.name = "VarQuantity::deserialize"
    /\ ret.ok
    /\ ret.val.variant = "Function"
    /\ ret.val.wrapper.function.kind = "Custom"
    /\ ret.val.wrapper.function.other_unit # ret.val.wrapper.function.empty_unit

\* C4: VarQuantity::get returns a copy of v on Constant(v), for every input
\* list, and exactly w.call(inputs) on Function(w).
C4_Get ==
    op.name = "VarQuantity::get" =>
        /\ vq.variant = "Constant" => ret = Returned(vq.value)
        /\ vq.variant = "Function" =>
               ret = FunctionWrapper_call(vq.wrapper, op.influencing_factors)

C4_Witness ==
    /\ op.name = "VarQuantity::get"
    /\ vq.variant = "Function"
    /\ Len(op.influencing_factors) = 2
    /\ ret.ok
    /\ ret # FunctionWrapper_call(vq.wrapper, <<>>)

---------------------------------------------------------------------------
(* Properties of filter_unary_function (checked under SpecFilter)          *)

Matching(influencing_factors, match_for) ==
    {i \in DOMAIN influencing_factors : influencing_factors[i].unit = match_for}

\* C5: filter_unary_function invokes exactly one continuation, exactly once:
\* with_matched on the first element in list order whose unit equals the
\* target, and no_match if and only if no element's unit equals it.
C5_FirstMatchWins ==
    op.name = "filter_unary_function" =>
        LET matching == Matching(op.influencing_factors, op.match_for)
            invoked == ret.val
        IN  /\ Len(invoked) = 1
            /\ invoked[1].cont = "no_match" <=> matching = {}
            /\ matching # {} =>
                   LET first == CHOOSE i \in matching : \A j \in matching : i <= j
                   IN  invoked[1] = WithMatched(op.influencing_factors[first])

C5_Witness ==
    /\ op.name = "filter_unary_function"
    /\ Matching(op.influencing_factors, op.match_for) = {1, 2}
    /\ op.influencing_factors[1] # op.influencing_factors[2]
    /\ ret.val = <<WithMatched(op.influencing_factors[1])>>

---------------------------------------------------------------------------
(* Properties of FirstOrderTaylor::new (checked under SpecUnary)           *)

IsTaylorNew == op.name = "FirstOrderTaylor::new"

C12_TaylorNewChecksBaseUnit ==
    IsTaylorNew =>
        ret.ok <=> op.base_value.unit = UnitMul(op.slope.unit, op.expansion_point.unit)

---------------------------------------------------------------------------
(* ClampedQuantity<T>: an inner built-in function and two limits           *)

\* mutant: equal limits are rejected as well
ClampedQuantity_new_strict(upper_limit, lower_limit, function) ==
    IF upper_limit <= lower_limit
    THEN Err("upper limit must not be smaller than the lower limit")
    ELSE Ok([kind |-> "Clamped", upper_limit |-> upper_limit,
             lower_limit |-> lower_limit, function |-> function])

ClampedQuantity_new(upper_limit, lower_limit, function) ==
    IF upper_limit < lower_limit
    THEN Err("upper limit must not be smaller than the lower limit")
    ELSE Ok([kind |-> "Clamped", upper_limit |-> upper_limit,
             lower_limit |-> lower_limit, function |-> function])

ClampedQuantity_inner(self) == self.function
ClampedQuantity_upper_limit(self) == self.upper_limit
ClampedQuantity_lower_limit(self) == self.lower_limit

\* f64::clamp(self, min, max) on a scalar kept as an integer; the caller
\* has checked min <= max
f64_clamp(value, min, max) ==
    IF value < min THEN min
    ELSE IF value > max THEN max
    ELSE value

\* 1000 * e^k rounded down, for the powers the model meets
ExpScaled(k) ==
    CASE k = 0 -> 1000
      [] k = 1 -> 2718
      [] k = 2 -> 7389
      [] k = 3 -> 20085
      [] k = 4 -> 54598

\* bounds of 1000 * (a sum in collected form): with a term of k # 0 the sum
\* lies strictly between them
RECURSIVE ExpLower(_)
ExpLower(sum) ==
    IF sum = {} THEN 0
    ELSE LET p == CHOOSE q \in sum : TRUE
             t == IF p[1] = 0 THEN 1000 * p[2]
                  ELSE IF p[2] > 0 THEN p[2] * ExpScaled(p[1])
                  ELSE p[2] * (ExpScaled(p[1]) + 1)
         IN  t + ExpLower(sum \ {p})

RECURSIVE ExpUpper(_)
ExpUpper(sum) ==
    IF sum = {} THEN 0
    ELSE LET p == CHOOSE q \in sum : TRUE
             t == IF p[1] = 0 THEN 1000 * p[2]
                  ELSE IF p[2] > 0 THEN p[2] * (ExpScaled(p[1]) + 1)
                  ELSE p[2] * ExpScaled(p[1])
         IN  t + ExpUpper(sum \ {p})

\* the f64 comparisons sum < n and sum > n
ExpLessInt(sum, n) == sum # ExpOfInt(n) /\ ExpUpper(sum) <= 1000 * n
ExpGreaterInt(sum, n) == sum # ExpOfInt(n) /\ ExpLower(sum) >= 1000 * n

\* f64::clamp on the value of an Exponential
f64_clamp_exp(value, min, max) ==
    IF ExpLessInt(value, min) THEN ExpOfInt(min)
    ELSE IF ExpGreaterInt(value, max) THEN ExpOfInt(max)
    ELSE value

\* mutant: only the upper limit is applied
ClampedQuantity_call_clamped_upper_only(self, influencing_factors) ==
    LET r == Builtin_call(self.function, influencing_factors)
    IN  IF ~r.ok THEN Panic
        ELSE IF self.lower_limit > self.upper_limit THEN Panic
        ELSE LET top == self.upper_limit
                 value == IF self.function.kind = "Exponential"
                          THEN IF ExpGreaterInt(r.val.value, top)
                               THEN ExpOfInt(top) ELSE r.val.value
                          ELSE IF r.val.value > top THEN top ELSE r.val.value
             IN  Returned([value |-> value, unit |-> r.val.unit])

\* the inner call, then value.clamp(lower_limit, upper_limit), which panics
\* when lower_limit > upper_limit
ClampedQuantity_call_clamped(self, influencing_factors) ==
    LET r == Builtin_call(self.function, influencing_factors)
    IN  IF ~r.ok THEN Panic
        ELSE IF self.lower_limit > self.upper_limit THEN Panic
        ELSE LET value ==
                     IF self.function.kind = "Exponential"
                     THEN f64_clamp_exp(r.val.value, self.lower_limit, self.upper_limit)
                     ELSE f64_clamp(r.val.value, self.lower_limit, self.upper_limit)
             IN  Returned([value |-> value, unit |-> r.val.unit])

\* the derived Clone
ClampedQuantity_clone(self) ==
    [kind |-> "Clamped", upper_limit |-> self.upper_limit,
     lower_limit |-> self.lower_limit, function |-> self.function]

\* the derived Serialize: the three fields, the function by its own Serialize
ClampedQuantity_serialize(self) ==
    Map("ClampedQuantity",
        [upper_limit |-> self.upper_limit, lower_limit |-> self.lower_limit,
         function |-> QuantityFunction_serialize(self.function)])

\* the derived Deserialize: each field by its own Deserialize, then the
\* struct is built from the fields
ClampedQuantity_deserialize(value) ==
    LET function == Box_deserialize(value.content.function)
    IN  IF ~function.ok THEN function
        ELSE Ok([kind |-> "Clamped", upper_limit |-> value.content.upper_limit,
                 lower_limit |-> value.content.lower_limit,
                 function |-> function.val])

\* QuantityFunction::call on a built-in function or on a ClampedQuantity
\* around one
Unary_call(self, influencing_factors) ==
    IF self.kind = "Clamped"
    THEN ClampedQuantity_call_clamped(self, influencing_factors)
    ELSE Builtin_call(self, influencing_factors)

---------------------------------------------------------------------------
(* The client of ClampedQuantity: it builds a function, wraps it with two  *)
(* limits or reads a ClampedQuantity from a payload, and calls it.         *)

Limits == {-1, 0, 2}

\* the inner functions: what the four constructors accept of these arguments
InnerScalars == {-1, 2}
InnerQuantities == {DynQuantityNew(v, u) : v \in InnerScalars, u \in Units}
Accepted(results) == {r.val : r \in {x \in results : x.ok}}
InnerFunctions ==
    {Linear_new(slope, base_value) :
        slope \in InnerQuantities, base_value \in InnerQuantities}
    \cup Accepted({FirstOrderTaylor_new(b, s, e) :
            b \in InnerQuantities, s \in InnerQuantities, e \in InnerQuantities})
    \cup Accepted({Polynomial_new(c) : c \in SeqsUpTo(InnerQuantities, 2)})
    \cup Accepted({Exponential_new(t) : t \in SeqsUpTo(ExpTerms, 2)})

\* the payloads: three fields, with the limits in either order
ClampedPayloads ==
    {Map("ClampedQuantity",
         [upper_limit |-> u, lower_limit |-> l,
          function |-> QuantityFunction_serialize(f)]) :
        u \in Limits, l \in Limits, f \in InnerFunctions}

NewInner ==
    /\ IsIdle /\ OwnsNothing
    /\ \E f \in InnerFunctions :
        /\ op' = [name |-> "new", function |-> f]
        /\ ret' = Ok(f)
        /\ func' = f
    /\ UNCHANGED <<wrapper, vq>>

\* ClampedQuantity::new(upper_limit, lower_limit, func): the function moves
\* into the call
ClampedNew ==
    /\ IsIdle /\ func # NoFunction /\ func.kind # "Clamped"
    /\ \E upper_limit \in Limits, lower_limit \in Limits :
        /\ op' = [name |-> "ClampedQuantity::new", upper_limit |-> upper_limit,
                  lower_limit |-> lower_limit, function |-> func]
        /\ ret' = ClampedQuantity_new(upper_limit, lower_limit, func)
        /\ func' = Keep(ClampedQuantity_new(upper_limit, lower_limit, func))
    /\ UNCHANGED <<wrapper, vq>>

ClampedDeserialize ==
    /\ IsIdle /\ OwnsNothing
    /\ \E payload \in ClampedPayloads :
        /\ op' = [name |-> "ClampedQuantity::deserialize", payload |-> payload]
        /\ ret' = ClampedQuantity_deserialize(payload)
        /\ func' = Keep(ClampedQuantity_deserialize(payload))
    /\ UNCHANGED <<wrapper, vq>>

\* the clone replaces the original, which the client drops
ClampedClone ==
    /\ IsIdle /\ func # NoFunction /\ func.kind = "Clamped"
    /\ op' = [name |-> "ClampedQuantity::clone"]
    /\ ret' = Returned(ClampedQuantity_clone(func))
    /\ func' = ClampedQuantity_clone(func)
    /\ UNCHANGED <<wrapper, vq>>

\* QuantityFunction::call on the function the client owns
CallUnary ==
    /\ IsIdle /\ func # NoFunction
    /\ \E influencing_factors \in InputLists :
        /\ op' = [name |-> "call", influencing_factors |-> influencing_factors]
        /\ ret' = Unary_call(func, influencing_factors)
    /\ UNCHANGED <<func, wrapper, vq>>

NextClamped ==
    \/ NewInner
    \/ ClampedNew
    \/ ClampedDeserialize
    \/ ClampedClone
    \/ CallUnary
    \/ TakeResult
    \/ DropFunction

SpecClamped == Init /\ [][NextClamped]_vars

---------------------------------------------------------------------------
(* Properties of ClampedQuantity and of the output unit (checked under     *)
(* SpecClamped)                                                            *)

IsClamped == func.kind = "Clamped"
InnerOf(f) == IF f.kind = "Clamped" THEN ClampedQuantity_inner(f) ELSE f

\* C13: for a built-in function, and for a ClampedQuantity around one, the
\* unit of the value a call returns is the output unit of the (inner)
\* function, whatever the input list.
C13_OutputUnit ==
    (op.name = "call" /\ ret.ok) => ret.val.unit = output_unit(InnerOf(func))

C13_Witness ==
    /\ op.name = "call"
    /\ IsClamped
    /\ func.function.kind = "Linear"
    /\ Len(op.influencing_factors) = 2
    /\ op.influencing_factors[1].unit = influencing_factor_unit(func.function)
    /\ op.influencing_factors[2].unit = influencing_factor_unit(func.function)
    /\ op.influencing_factors[1].unit # UnitDefault
    /\ ret.ok
    /\ ret.val.unit = Ampere

\* max(lo, min(hi, v)) for an integer scalar and for a sum in collected form
MaxMin(lo, hi, v) ==
    LET m == IF hi < v THEN hi ELSE v
    IN  IF lo > m THEN lo ELSE m

MaxMinExp(lo, hi, v) ==
    LET m == IF ExpGreaterInt(v, hi) THEN ExpOfInt(hi) ELSE v
    IN  IF ExpLessInt(m, lo) THEN ExpOfInt(lo) ELSE m

\* C14: with lower_limit <= upper_limit, call_clamped returns the scalar
\* max(lower_limit, min(upper_limit, v)) and the unit of the value the inner
\* function returns for the same inputs (v its scalar).
C14_Clamp ==
    (op.name = "call" /\ IsClamped /\ func.lower_limit <= func.upper_limit) =>
        LET inner == Builtin_call(func.function, op.influencing_factors)
        IN  IF inner.ok
            THEN /\ ret.ok
                 /\ ret.val.unit = inner.val.unit
                 /\ ret.val.value =
                        IF func.function.kind = "Exponential"
                        THEN MaxMinExp(func.lower_limit, func.upper_limit, inner.val.value)
                        ELSE MaxMin(func.lower_limit, func.upper_limit, inner.val.value)
            ELSE IsPanic(ret)

\* a call whose inner value lies below the lower limit
C14_Witness ==
    /\ op.name = "call"
    /\ IsClamped
    /\ func.function.kind = "Exponential"
    /\ func.lower_limit = 0
    /\ func.upper_limit = 2
    /\ ExpLessInt(Builtin_call(func.function, op.influencing_factors).val.value, 0)
    /\ ret = Returned(DynQuantityNew(ExpOfInt(0), output_unit(func.function)))

\* C15: ClampedQuantity::new fails if and only if upper_limit < lower_limit;
\* on success the accessors return the arguments in their positions.
C15_ClampedNew ==
    op.name = "ClampedQuantity::new" =>
        /\ ~ret.ok <=> op.upper_limit < op.lower_limit
        /\ ret.ok =>
               /\ ClampedQuantity_upper_limit(func) = op.upper_limit
               /\ ClampedQuantity_lower_limit(func) = op.lower_limit
               /\ ClampedQuantity_inner(func) = op.function

C15_Witness ==
    /\ op.name = "ClampedQuantity::new"
    /\ op.upper_limit = op.lower_limit
    /\ ret.ok
    /\ IsClamped

\* C16: every ClampedQuantity that exists has lower_limit <= upper_limit.
C16_LimitsOrdered ==
    IsClamped => func.lower_limit <= func.upper_limit

---------------------------------------------------------------------------
(* Properties of the serialized form of the built-in functions (checked    *)
(* under SpecUnary)                                                        *)

\* C17: a built-in function read back from its serialized form is accepted,
\* holds every serialized field in its own role, has the skipped fields
\* recomputed to the same values, and returns what the original returns for
\* every input list.
C17_RoundTrip ==
    op.name = "round_trip" =>
        /\ ret.ok
        /\ ret.val.kind = func.kind
        /\ influencing_factor_unit(ret.val) = influencing_factor_unit(func)
        /\ output_unit(ret.val) = output_unit(func)
        /\ CASE func.kind = "Linear" ->
                    /\ ret.val.slope = func.slope
                    /\ ret.val.base_value = func.base_value
             [] func.kind = "FirstOrderTaylor" ->
                    /\ ret.val.base_value = func.base_value
                    /\ ret.val.slope = func.slope
                    /\ ret.val.expansion_point = func.expansion_point
             [] func.kind = "Polynomial" ->
                    /\ ret.val.coefficients = func.coefficients
                    /\ ret.val.coefficients_val = func.coefficients_val
                    /\ ret.val.default_value = func.default_value
             [] func.kind = "Exponential" -> ret.val.terms = func.terms
        /\ \A influencing_factors \in InputLists :
               Builtin_call(ret.val, influencing_factors)
                   = Builtin_call(func, influencing_factors)

C17_Witness ==
    /\ op.name = "round_trip"
    /\ func.kind = "FirstOrderTaylor"
    /\ func.slope.unit = PerAmpere
    /\ func.slope.value # func.expansion_point.value
    /\ func.base_value.unit = Watt
    /\ ret = Ok(func)

---------------------------------------------------------------------------
(* Properties of the serialized form of VarQuantity (checked under Spec)   *)

\* C18: a VarQuantity<T> read back from its serialized form is accepted, has
\* the same variant and returns from get what the original returns, for
\* every input list.
C18_VarQuantityRoundTrip ==
    op.name = "VarQuantity::round_trip" =>
        /\ ret.ok
        /\ ret.val.variant = vq.variant
        /\ \A influencing_factors \in InputLists :
               VarQuantity_get(ret.val, influencing_factors)
                   = VarQuantity_get(vq, influencing_factors)

---------------------------------------------------------------------------
(* Properties of the Deserialize of VarQuantity and FunctionWrapper        *)
(* (checked under Spec)                                                    *)

IsVarQuantityDeserialize == op.name = "VarQuantity::deserialize"

\* the payload read as a constant of type T: a bare number, or a string that
\* denotes a quantity of T's unit
ConstantReading(T, payload) ==
    CASE payload.ty = "Number" -> Some([type |-> T, value |-> payload.number])
      [] /\ payload.ty = "String"
         /\ payload.literal.wellformed
         /\ payload.literal.unit = unit_from_type(T) ->
             Some([type |-> T, value |-> payload.literal.value])
      [] OTHER -> None

\* C19: deserializing a VarQuantity<T> yields Constant whenever the payload
\* reads as a constant (a bare number, or a string denoting a quantity of T);
\* Function is yielded only for a payload that does not read as a constant,
\* and then it is what FunctionWrapper's Deserialize makes of the payload; a
\* string is never handed to function parsing.
C19_ConstantFirst ==
    IsVarQuantityDeserialize =>
        LET reading == ConstantReading(op.T, op.payload)
        IN  /\ reading.some => ret = Ok(Constant(reading.val))
            /\ (ret.ok /\ ret.val.variant = "Function") =>
                   /\ ~reading.some
                   /\ op.payload.ty = "Map"
                   /\ Ok(ret.val.wrapper) = FunctionWrapper_deserialize(op.T, op.payload)
            /\ op.payload.ty = "Map" => (ret.ok => ret.val.variant = "Function")
            /\ (op.payload.ty = "String" /\ ~ret.ok) =>
                   ret.err.cause.error \in {"ParseError", "ConversionError"}

C19_Witness ==
    /\ IsVarQuantityDeserialize
    /\ op.T = "Power"
    /\ op.payload.ty = "String"
    /\ op.payload.literal.wellformed
    /\ op.payload.literal.unit = Watt
    /\ ret = Ok(Constant([type |-> "Power", value |-> 2]))
    /\ vq.variant = "Constant"

\* the payload is a tagged object that the tagged type's Deserialize accepts
WellFormedFunctionObject(payload) ==
    payload.ty = "Map" /\ Box_deserialize(payload).ok

\* C20: deserializing a VarQuantity<T> or a FunctionWrapper<T> from a
\* well-formed tagged function object yields Function / a wrapper around that
\* function if the function's unit for the empty input list is T's, and a
\* deserialization error carrying both units otherwise; a Function variant
\* exists only around a function that passes this test.
C20_DeserializeSelfTest ==
    /\ (/\ op.name \in {"VarQuantity::deserialize", "FunctionWrapper::deserialize"}
        /\ WellFormedFunctionObject(op.payload)) =>
           LET function == Box_deserialize(op.payload).val
               actual == EmptyInputUnit(function)
               expected == unit_from_type(op.T)
               made == [exists |-> TRUE, function |-> function, T |-> op.T]
           IN  IF actual = expected
               THEN ret = IF IsVarQuantityDeserialize THEN Ok(Function(made))
                                                      ELSE Ok(made)
               ELSE /\ ret = DeError(UnitsNotEqual(expected, actual))
                    /\ wrapper = NoWrapper
                    /\ vq = NoVarQuantity
    /\ vq.variant = "Function" =>
           EmptyInputUnit(vq.wrapper.function) = unit_from_type(vq.wrapper.T)

C20_Witness ==
    /\ IsVarQuantityDeserialize
    /\ WellFormedFunctionObject(op.payload)
    /\ op.payload.tag = "Linear"
    /\ op.T = "ElectricCurrent"
    /\ EmptyInputUnit(Box_deserialize(op.payload).val) = UnitDefault
    /\ ~ret.ok
    /\ vq = NoVarQuantity

\* C21: when the payload reads neither as a constant nor as a function
\* object, deserializing a VarQuantity<T> fails and the error is the one
\* function-object parsing produces, also for a string whose unit is not T's.
C21_FunctionParsingError ==
    (/\ IsVarQuantityDeserialize
     /\ ~ConstantReading(op.T, op.payload).some
     /\ ~FunctionWrapper_deserialize(op.T, op.payload).ok) =>
        /\ ~ret.ok
        /\ ~IsPanic(ret)
        /\ ret = FunctionWrapper_deserialize(op.T, op.payload)

---------------------------------------------------------------------------
(* Further properties of the built-in functions (checked under SpecUnary)  *)

\* C22: Polynomial::new with at most one coefficient and Exponential::new
\* with at most one term return an instance, whatever the units of the entry.
C22_DegenerateAccepted ==
    /\ (op.name = "Polynomial::new" /\ Len(op.coefficients) <= 1) =>
           /\ ret.ok
           /\ func.coefficients = op.coefficients
    /\ (op.name = "Exponential::new" /\ Len(op.terms) <= 1) =>
           /\ ret.ok
           /\ func.terms = op.terms

C22_Witness ==
    /\ op.name = "Exponential::new"
    /\ Len(op.terms) = 1
    /\ op.terms[1].amplitude.unit = Ampere
    /\ op.terms[1].exponent.unit = Ampere
    /\ ret.ok

\* C23: a Polynomial made of no coefficients has the dimensionless
\* influencing-factor unit, and its call returns a dimensionless zero for
\* every input list, a list holding a dimensionless value included.
C23_EmptyPolynomialCall ==
    /\ (func.kind = "Polynomial" /\ func.coefficients = <<>>) =>
           influencing_factor_unit(func) = UnitDefault
    /\ (op.name = "call" /\ func.kind = "Polynomial" /\ func.coefficients = <<>>) =>
           ret = Returned(DynQuantityNew(0, UnitDefault))

\* the first element of the list that carries the unit, if there is one
MatchingIndices(influencing_factors, unit) ==
    {i \in 1..Len(influencing_factors) : influencing_factors[i].unit = unit}

HasMatching(influencing_factors, unit) == MatchingIndices(influencing_factors, unit) # {}

FirstMatching(influencing_factors, unit) ==
    LET I == MatchingIndices(influencing_factors, unit)
    IN  influencing_factors[CHOOSE i \in I : \A j \in I : i <= j]

\* a call of the function the client owns whose input list holds a value of
\* the influencing-factor unit
IsMatchedCall ==
    /\ op.name = "call"
    /\ HasMatching(op.influencing_factors, influencing_factor_unit(func))

\* the scalar of the first matching input of a matched call
MatchedX == FirstMatching(op.influencing_factors, influencing_factor_unit(func)).value

RECURSIVE Pow(_, _)
Pow(x, n) == IF n = 0 THEN 1 ELSE x * Pow(x, n - 1)

\* a[1] * x^(l-1) + a[2] * x^(l-2) + ... + a[l], summed term by term
RECURSIVE PowerSum(_, _, _)
PowerSum(x, a, i) ==
    IF i > Len(a) THEN 0
    ELSE a[i].value * Pow(x, Len(a) - i) + PowerSum(x, a, i + 1)

\* the polynomial -x^2 + 3x + 2 without units
ExamplePolynomial ==
    Polynomial_new(<<DynQuantityNew(-1, UnitDefault), DynQuantityNew(3, UnitDefault),
                     DynQuantityNew(2, UnitDefault)>>)

\* C24: a Polynomial with at least one coefficient, called with a list whose
\* first matching element has scalar x, returns a0*x^n + ... + an (first
\* coefficient is the highest power) with the unit of the last coefficient;
\* coefficients [-1, 3, 2] give 4 at x = 2 and 2 for the empty list.
C24_PolynomialValue ==
    /\ (IsMatchedCall /\ func.kind = "Polynomial" /\ Len(func.coefficients) >= 1) =>
           ret = Returned(DynQuantityNew(
                     PowerSum(MatchedX, func.coefficients, 1),
                     func.coefficients[Len(func.coefficients)].unit))
    /\ ExamplePolynomial.ok
    /\ Polynomial_call(ExamplePolynomial.val, <<DynQuantityNew(2, UnitDefault)>>)
           = Returned(DynQuantityNew(4, UnitDefault))
    /\ Polynomial_call(ExamplePolynomial.val, <<>>)
           = Returned(DynQuantityNew(2, UnitDefault))

C24_Witness ==
    /\ IsMatchedCall
    /\ func.kind = "Polynomial"
    /\ Len(func.coefficients) = 3
    /\ func.coefficients[1].value = -1
    /\ func.coefficients[2].value = 2
    /\ func.coefficients[1].unit # func.coefficients[3].unit
    /\ MatchedX = 2
    /\ Len(op.influencing_factors) = 2
    /\ op.influencing_factors[1].unit # influencing_factor_unit(func)
    /\ ret.val.value = PowerSum(2, func.coefficients, 1)

\* C25: a Linear function, called with a list whose first element of unit
\* base_value.unit / slope.unit has scalar x, returns slope * x + base_value
\* with the unit of base_value.
C25_LinearValue ==
    (/\ op.name = "call"
     /\ func.kind = "Linear"
     /\ HasMatching(op.influencing_factors,
                    UnitDiv(func.base_value.unit, func.slope.unit))) =>
        LET x == FirstMatching(op.influencing_factors,
                               UnitDiv(func.base_value.unit, func.slope.unit)).value
        IN  ret = Returned(DynQuantityNew(func.slope.value * x + func.base_value.value,
                                          func.base_value.unit))

C25_Witness ==
    /\ IsMatchedCall
    /\ func.kind = "Linear"
    /\ func.slope = DynQuantityNew(2, PerAmpere)
    /\ func.base_value = DynQuantityNew(-1, UnitDefault)
    /\ MatchedX = 2
    /\ ret = Returned(DynQuantityNew(3, UnitDefault))

\* C26: a FirstOrderTaylor function, called with a list whose first element
\* of unit expansion_point.unit has scalar x, returns
\* base_value * (1 + slope * (x - expansion_point)) with the unit of
\* base_value; at x = expansion_point it returns exactly base_value.
C26_TaylorValue ==
    (/\ op.name = "call"
     /\ func.kind = "FirstOrderTaylor"
     /\ HasMatching(op.influencing_factors, func.expansion_point.unit)) =>
        LET x == FirstMatching(op.influencing_factors, func.expansion_point.unit).value
        IN  /\ ret = Returned(DynQuantityNew(
                         func.base_value.value
                             * (1 + func.slope.value * (x - func.expansion_point.value)),
                         func.base_value.unit))
            /\ x = func.expansion_point.value => ret = Returned(func.base_value)

C26_Witness ==
    /\ IsMatchedCall
    /\ func.kind = "FirstOrderTaylor"
    /\ func.base_value.value = 2
    /\ func.slope.value = -1
    /\ func.expansion_point.value = 0
    /\ func.expansion_point.unit = Ampere
    /\ MatchedX = 2
    /\ ret = Returned(DynQuantityNew(-2, func.base_value.unit))

\* the distances from the end of the list of the coefficients whose unit,
\* times the influencing-factor unit to that power, is not the last unit
PolynomialOffending(coefficients) ==
    LET l == Len(coefficients)
        ifu == UnitDiv(coefficients[l].unit, coefficients[l - 1].unit)
    IN  {k \in 1..(l - 1) :
            coefficients[l].unit # UnitMul(coefficients[l - k].unit, UnitPowi(ifu, k))}

\* the units Polynomial::new reports for the coefficient k places from the end
PolynomialReport(coefficients, k) ==
    LET l == Len(coefficients)
        ifu == UnitDiv(coefficients[l].unit, coefficients[l - 1].unit)
    IN  UnitsNotEqual(coefficients[l].unit,
                      UnitMul(coefficients[l - k].unit, UnitPowi(ifu, k)))

\* the adjacent pairs of terms that differ in a unit
ExponentialOffending(terms) ==
    {i \in 1..(Len(terms) - 1) :
        \/ terms[i].amplitude.unit # terms[i + 1].amplitude.unit
        \/ terms[i].exponent.unit # terms[i + 1].exponent.unit}

Minimum(S) == CHOOSE n \in S : \A m \in S : n <= m

IsFailedNew(name) == op.name = name /\ ~ret.ok

\* C28: a failed built-in constructor names the two conflicting units.
\* Polynomial: the last unit and c.unit * influencing_factor_unit^k for the
\* offending coefficient nearest to the end; Exponential: the units of the
\* first adjacent pair that differs, amplitudes before exponents;
\* FirstOrderTaylor: dimensionless and expansion_point.unit * slope.unit.
C28_ErrorUnits ==
    /\ IsFailedNew("Polynomial::new") =>
           /\ Len(op.coefficients) >= 2
           /\ PolynomialOffending(op.coefficients) # {}
           /\ ret = Err(PolynomialReport(op.coefficients,
                                         Minimum(PolynomialOffending(op.coefficients))))
    /\ IsFailedNew("Exponential::new") =>
           /\ ExponentialOffending(op.terms) # {}
           /\ LET i == Minimum(ExponentialOffending(op.terms))
                  t1 == op.terms[i]
                  t2 == op.terms[i + 1]
              IN  ret = IF t1.amplitude.unit # t2.amplitude.unit
                        THEN Err(UnitsNotEqual(t1.amplitude.unit, t2.amplitude.unit))
                        ELSE Err(UnitsNotEqual(t1.exponent.unit, t2.exponent.unit))
    /\ IsFailedNew("FirstOrderTaylor::new") =>
           ret = Err(UnitsNotEqual(UnitDefault,
                                   UnitMul(op.expansion_point.unit, op.slope.unit)))

\* a polynomial with two offending coefficients whose reports differ, and
\* the nearer one is reported
C28_Witness ==
    /\ IsFailedNew("Polynomial::new")
    /\ PolynomialOffending(op.coefficients) = {2, 3}
    /\ PolynomialReport(op.coefficients, 2) # PolynomialReport(op.coefficients, 3)
    /\ ret = Err(PolynomialReport(op.coefficients, 2))

\* what a list holds for a unit: its first value of that unit alone, or
\* nothing.  Two lists agree on their first matching element (or both have
\* none) exactly when they have the same relevant part, and every list
\* agrees with its own relevant part.
Relevant(influencing_factors, unit) ==
    IF HasMatching(influencing_factors, unit)
    THEN <<FirstMatching(influencing_factors, unit)>>
    ELSE <<>>

\* C29: the result of call depends only on the first input element whose
\* unit is the influencing-factor unit: the call returns what it returns for
\* that element alone (for the empty list when there is none), so any two
\* lists that agree on that element produce the same result, whatever else
\* they hold and in whatever order.
C29_Noninterference ==
    op.name = "call" =>
        ret = Builtin_call(func, Relevant(op.influencing_factors,
                                          influencing_factor_unit(func)))

\* a call whose list holds two matching values with different scalars: the
\* result is that of the first one alone and not that of the second
C29_Witness ==
    /\ IsMatchedCall
    /\ func.kind = "Exponential"
    /\ Len(func.terms) = 2
    /\ \E i, j \in MatchingIndices(op.influencing_factors, influencing_factor_unit(func)) :
           op.influencing_factors[i].value # op.influencing_factors[j].value
    /\ ret = Builtin_call(func, <<op.influencing_factors[1]>>)
    /\ ret # Builtin_call(func, <<op.influencing_factors[2]>>)

\* the unit-consistency check of the constructor and the derived fields,
\* stated from the coefficients / terms / arguments an instance holds
PolynomialSound(f) ==
    LET c == f.coefficients
        l == Len(c)
    IN  /\ l >= 2 => PolynomialOffending(c) = {}
        /\ f.influencing_factor_unit =
               IF l >= 2 THEN UnitDiv(c[l].unit, c[l - 1].unit) ELSE UnitDefault
        /\ f.default_value = IF l >= 1 THEN c[l] ELSE DynQuantityNew(0, UnitDefault)
        /\ f.coefficients_val = [i \in 1..l |-> c[i].value]

ExponentialSound(f) ==
    LET t == f.terms
    IN  /\ ExponentialOffending(t) = {}
        /\ f.output_unit = IF Len(t) >= 1 THEN t[1].amplitude.unit ELSE UnitDefault
        /\ f.influencing_factor_unit =
               IF Len(t) >= 1 THEN UnitPowi(t[1].exponent.unit, -1) ELSE UnitDefault

TaylorSound(f) == UnitMul(f.expansion_point.unit, f.slope.unit) = UnitDefault

InstanceSound(f) ==
    CASE f.kind = "Polynomial" -> PolynomialSound(f)
      [] f.kind = "Exponential" -> ExponentialSound(f)
      [] f.kind = "FirstOrderTaylor" -> TaylorSound(f)
      [] OTHER -> TRUE

\* a payload of a built-in function whose units fail the constructor's check
InconsistentPayload(payload) ==
    /\ payload.ty = "Map"
    /\ CASE payload.tag = "Polynomial" ->
                /\ Len(payload.content.coefficients) >= 2
                /\ PolynomialOffending(payload.content.coefficients) # {}
         [] payload.tag = "Exponential" ->
                ExponentialOffending(payload.content.terms) # {}
         [] payload.tag = "FirstOrderTaylor" ->
                UnitMul(payload.content.expansion_point.unit,
                        payload.content.slope.unit) # UnitDefault
         [] OTHER -> FALSE

\* C30: every Polynomial, Exponential and FirstOrderTaylor instance that
\* exists, whether it came from new, from deserialization or from clone,
\* passes its constructor's unit check and has derived fields equal to those
\* computed from its coefficients; a payload with inconsistent units is
\* rejected and produces no instance.
C30_InstancesSound ==
    /\ InstanceSound(func)
    /\ (op.name \in {"deserialize", "round_trip", "clone"} /\ ret.ok) =>
           InstanceSound(ret.val)
    /\ (op.name = "deserialize" /\ InconsistentPayload(op.payload)) =>
           /\ ~ret.ok
           /\ ~IsPanic(ret)
           /\ func = NoFunction

\* a polynomial read from a payload of three coefficients with different
\* units: it is kept, and it is what the constructor builds
C30_Witness ==
    /\ op.name = "deserialize"
    /\ op.payload.ty = "Map"
    /\ op.payload.tag = "Polynomial"
    /\ Len(op.payload.content.coefficients) = 3
    /\ op.payload.content.coefficients[1].unit # op.payload.content.coefficients[3].unit
    /\ ret.ok
    /\ func = ret.val
    /\ func.coefficients = op.payload.content.coefficients
    /\ func.influencing_factor_unit # UnitDefault
    /\ PolynomialSound(func)

---------------------------------------------------------------------------
(* Shared evaluation.  get, call and call_clamped take &self, and           *)
(* QuantityFunction requires Sync + Send, so several threads may evaluate   *)
(* one VarQuantity and one ClampedQuantity through shared references, each  *)
(* at its own position in the call chain.  Here vq and func are the shared  *)
(* objects, and op and ret hold one entry per thread: the operation the     *)
(* thread is in (with the object as it was when the operation began, the    *)
(* intermediate DynQuantity and the clone the thread holds) and the value   *)
(* it returned.  A panic ends the thread and leaves the others running.     *)

ThreadIds == {1, 2}

ThreadInputQuantities == {DynQuantityNew(2, Ampere), DynQuantityNew(0, UnitDefault)}
ThreadInputLists == SeqsUpTo(ThreadInputQuantities, MaxInputs)

\* the shared VarQuantity: a constant, or a wrapper FunctionWrapper::new
\* accepted of a Linear, of a user function or of the Polynomial without
\* coefficients
SharedFunctions ==
    {Linear_new(DynQuantityNew(2, PerAmpere), DynQuantityNew(-1, UnitDefault)),
     Custom_new(UnitDefault, Ampere, 1)}
        \cup Accepted({Polynomial_new(<<>>)})
SharedVarQuantities ==
    {Constant([type |-> "f64", value |-> 2])}
        \cup {Function(w) : w \in Accepted({FunctionWrapper_new("f64", f) :
                                               f \in SharedFunctions})}

\* the shared ClampedQuantity: built by new, or read from a payload (whose
\* limits may be in the wrong order)
SharedClamped ==
    Accepted({ClampedQuantity_new(2, 0,
                 Linear_new(DynQuantityNew(2, PerAmpere), DynQuantityNew(-1, UnitDefault)))})
        \cup Accepted({ClampedQuantity_new(2, 0, f) : f \in Accepted({Polynomial_new(<<>>)})})
        \cup Accepted({ClampedQuantity_deserialize(
                 Map("ClampedQuantity",
                     [upper_limit |-> 0, lower_limit |-> 2,
                      function |-> QuantityFunction_serialize(
                          Linear_new(DynQuantityNew(2, PerAmpere),
                                     DynQuantityNew(2, UnitDefault)))]))})

IdleThread(clone) ==
    [name |-> "idle", pc |-> "idle", influencing_factors |-> <<>>, on |-> "none",
     self |-> NoVarQuantity, raw |-> NoReturn, clone |-> clone]

InitThreads ==
    /\ vq \in SharedVarQuantities
    /\ func \in SharedClamped
    /\ wrapper = NoWrapper
    /\ op = [t \in ThreadIds |-> IdleThread(NoVarQuantity)]
    /\ ret = [t \in ThreadIds |-> NoReturn]

\* the VarQuantity a thread's get works on
Target(t) == IF op[t].on = "clone" THEN op[t].clone ELSE vq

\* a thread enters VarQuantity::get on the shared object or on its clone
GetBegin(t) ==
    /\ op[t].pc = "idle"
    /\ \E influencing_factors \in ThreadInputLists,
          on \in {"original"} \cup (IF op[t].clone # NoVarQuantity THEN {"clone"} ELSE {}) :
        op' = [op EXCEPT ![t] = [@ EXCEPT !.name = "VarQuantity::get", !.pc = "match",
                                          !.influencing_factors = influencing_factors,
                                          !.on = on, !.self = vq]]
    /\ UNCHANGED <<func, wrapper, vq, ret>>

\* match self: a Constant is cloned and returned, a Function is called
GetMatch(t) ==
    /\ op[t].pc = "match"
    /\ IF Target(t).variant = "Constant"
       THEN /\ ret' = [ret EXCEPT ![t] = Returned(Target(t).value)]
            /\ op' = [op EXCEPT ![t].pc = "done"]
       ELSE /\ op' = [op EXCEPT ![t].pc = "FunctionWrapper::call"]
            /\ UNCHANGED ret
    /\ UNCHANGED <<func, wrapper, vq>>

\* FunctionWrapper::call: self.function.call(influencing_factors)
WrapperCallFunction(t) ==
    /\ op[t].pc = "FunctionWrapper::call"
    /\ LET r == QuantityFunction_call(Target(t).wrapper.function,
                                      op[t].influencing_factors)
       IN  IF r.ok
           THEN /\ op' = [op EXCEPT ![t] = [@ EXCEPT !.raw = r.val, !.pc = "try_from"]]
                /\ UNCHANGED ret
           ELSE /\ op' = [op EXCEPT ![t].pc = "panicked"]
                /\ ret' = [ret EXCEPT ![t] = Panic]
    /\ UNCHANGED <<func, wrapper, vq>>

\* FunctionWrapper::call: T::try_from of the value, or the panic
WrapperTryFrom(t) ==
    /\ op[t].pc = "try_from"
    /\ LET converted == TryFrom(Target(t).wrapper.T, IntoComplex(op[t].raw))
       IN  IF converted.ok
           THEN /\ ret' = [ret EXCEPT ![t] = Returned(converted.val)]
                /\ op' = [op EXCEPT ![t].pc = "done"]
           ELSE /\ ret' = [ret EXCEPT ![t] = Panic]
                /\ op' = [op EXCEPT ![t].pc = "panicked"]
    /\ UNCHANGED <<func, wrapper, vq>>

\* a thread enters call_clamped on the shared ClampedQuantity
CallClampedBegin(t) ==
    /\ op[t].pc = "idle"
    /\ \E influencing_factors \in ThreadInputLists :
        op' = [op EXCEPT ![t] = [@ EXCEPT !.name = "call_clamped", !.pc = "inner",
                                          !.influencing_factors = influencing_factors,
                                          !.on = "original", !.self = func]]
    /\ UNCHANGED <<func, wrapper, vq, ret>>

\* call_clamped: let mut dyn_quantity = self.function.call(influencing_factors)
ClampedInnerCall(t) ==
    /\ op[t].pc = "inner"
    /\ LET r == Builtin_call(func.function, op[t].influencing_factors)
       IN  IF r.ok
           THEN /\ op' = [op EXCEPT ![t] = [@ EXCEPT !.raw = r.val, !.pc = "clamp"]]
                /\ UNCHANGED ret
           ELSE /\ op' = [op EXCEPT ![t].pc = "panicked"]
                /\ ret' = [ret EXCEPT ![t] = Panic]
    /\ UNCHANGED <<func, wrapper, vq>>

\* mutant: the clamped scalar is written into the shared object (as its
\* upper limit) as well as into the local copy
ClampedClamp_in_place(t) ==
    /\ op[t].pc = "clamp"
    /\ IF func.lower_limit > func.upper_limit
       THEN /\ ret' = [ret EXCEPT ![t] = Panic]
            /\ op' = [op EXCEPT ![t].pc = "panicked"]
            /\ UNCHANGED func
       ELSE LET value == f64_clamp(op[t].raw.value, func.lower_limit, func.upper_limit)
            IN  /\ ret' = [ret EXCEPT ![t] =
                              Returned([value |-> value, unit |-> op[t].raw.unit])]
                /\ op' = [op EXCEPT ![t].pc = "done"]
                /\ func' = [func EXCEPT !.upper_limit = value]
    /\ UNCHANGED <<wrapper, vq>>

\* call_clamped: dyn_quantity.value is clamped to the limits of self (clamp
\* panics when lower_limit > upper_limit) and dyn_quantity is returned
ClampedClamp(t) ==
    /\ op[t].pc = "clamp"
    /\ IF func.lower_limit > func.upper_limit
       THEN /\ ret' = [ret EXCEPT ![t] = Panic]
            /\ op' = [op EXCEPT ![t].pc = "panicked"]
       ELSE LET value ==
                    IF func.function.kind = "Exponential"
                    THEN f64_clamp_exp(op[t].raw.value, func.lower_limit, func.upper_limit)
                    ELSE f64_clamp(op[t].raw.value, func.lower_limit, func.upper_limit)
            IN  /\ ret' = [ret EXCEPT ![t] =
                              Returned([value |-> value, unit |-> op[t].raw.unit])]
                /\ op' = [op EXCEPT ![t].pc = "done"]
    /\ UNCHANGED <<func, wrapper, vq>>

\* a thread clones the shared VarQuantity and keeps the clone
CloneShared(t) ==
    /\ op[t].pc = "idle"
    /\ op' = [op EXCEPT ![t] = [@ EXCEPT !.name = "VarQuantity::clone", !.pc = "done",
                                         !.influencing_factors = <<>>,
                                         !.on = "original", !.self = vq,
                                         !.clone = VarQuantity_clone(vq)]]
    /\ ret' = [ret EXCEPT ![t] = Returned(VarQuantity_clone(vq))]
    /\ UNCHANGED <<func, wrapper, vq>>

\* a thread takes the value its operation returned
ThreadTake(t) ==
    /\ op[t].pc = "done"
    /\ op' = [op EXCEPT ![t] = IdleThread(op[t].clone)]
    /\ ret' = [ret EXCEPT ![t] = NoReturn]
    /\ UNCHANGED <<func, wrapper, vq>>

NextThreads ==
    \/ \E t \in ThreadIds : GetBegin(t)
    \/ \E t \in ThreadIds : GetMatch(t)
    \/ \E t \in ThreadIds : WrapperCallFunction(t)
    \/ \E t \in ThreadIds : WrapperTryFrom(t)
    \/ \E t \in ThreadIds : CallClampedBegin(t)
    \/ \E t \in ThreadIds : ClampedInnerCall(t)
    \/ \E t \in ThreadIds : ClampedClamp(t)
    \/ \E t \in ThreadIds : CloneShared(t)
    \/ \E t \in ThreadIds : ThreadTake(t)

SpecThreads == InitThreads /\ [][NextThreads]_vars

\* what an operation that has ended returned equals what one call on the
\* object as it was when the operation began returns for the same inputs; a
\* get on a clone is compared with the original
ThreadIsolated(t) ==
    op[t].pc \in {"done", "panicked"} =>
        CASE op[t].name = "VarQuantity::get" ->
                 ret[t] = VarQuantity_get(op[t].self, op[t].influencing_factors)
          [] op[t].name = "call_clamped" ->
                 ret[t] = ClampedQuantity_call_clamped(op[t].self,
                                                       op[t].influencing_factors)
          [] op[t].name = "VarQuantity::clone" ->
                 ret[t] = Returned(op[t].self)

\* C27: evaluation is free of side effects.  No step of get, call,
\* call_clamped or clone, in any interleaving of the threads, changes the
\* shared VarQuantity or function object; every operation returns what one
\* isolated call with the same inputs returns; and a clone a thread holds
\* equals the original, so it evaluates identically.
C27_SideEffectFree ==
    /\ [](\A t \in ThreadIds :
            /\ ThreadIsolated(t)
            /\ op[t].clone # NoVarQuantity => op[t].clone = vq)
    /\ [][vq' = vq /\ func' = func]_vars

\* one thread is between the function call and the conversion of a get on
\* its clone while the other has ended a get on the original with the same
\* inputs
C27_Witness ==
    /\ op[1].pc = "try_from"
    /\ op[1].on = "clone"
    /\ op[1].influencing_factors = <<DynQuantityNew(2, Ampere)>>
    /\ op[2].pc = "done"
    /\ op[2].name = "VarQuantity::get"
    /\ op[2].on = "original"
    /\ op[2].influencing_factors = <<DynQuantityNew(2, Ampere)>>
    /\ vq.variant = "Function"
    /\ vq.wrapper.function.kind = "Linear"
    /\ ret[2] = Returned([type |-> "f64", value |-> 3])

=============================================================================
